---- MODULE Spec2Model ----
(***************************************************************************)
(* Model of the Tello WebSocket bridge: the command protocol object        *)
(* (TelloProtocol over BaseProtocol), its reconnection task, and the       *)
(* bridge coordinator (start, health monitor, main loop).                  *)
(*                                                                         *)
(* Two specifications share the definitions below.                         *)
(*   ProtoSpec  one TelloProtocol object driven through its datagram-      *)
(*              protocol callbacks and send_to_tello by a caller.          *)
(*   Spec       the running bridge: TelloBridge.start, the health monitor, *)
(*              the main loop, the reconnection task and the event loop's  *)
(*              callbacks.  FairSpec adds the scheduling fairness of the   *)
(*              asyncio tasks.                                             *)
(* Every `await asyncio.sleep(d)` is a suspension point: the task resumes  *)
(* at some later step.  The requested duration is kept as data.            *)
(***************************************************************************)
EXTENDS Integers, Sequences, FiniteSets, TLC

\* ---- bounds of the model ----
MaxProtos == 2      \* protocol/transport pairs that may be created
MaxCmds   == 2      \* send calls made by clients
MaxWire   == 5      \* datagrams recorded on the wire
MaxTime   == 31     \* clock readings 1..MaxTime
TickLen   == 15     \* time units that pass in one step of the clock
MaxEpisodes == 2    \* reconnection tasks created
MaxDgrams == 2      \* datagrams that arrive on the two UDP channels
MaxHandlers == 2    \* handle_websocket calls running with one client handle

\* ---- program constants ----
InitialRetryDelay == 5
MaxRetries == 10
DelayCap == 30
BackoffNum == 3
BackoffDen == 2
HealthThreshold == 15

None == 0
Protos == 1..MaxProtos
TelloAddr == "socket_host:socket_port"
Probe == [kind |-> "str", text |-> "command", call |-> 0]

\* what a client can hand to the command handler: a text frame (str) or a
\* binary frame (bytes)
ClientPayloads ==
  { [kind |-> "str", text |-> "command"],
    [kind |-> "bytes", text |-> "takeoff"] }

VARIABLES
  \* BaseProtocol / TelloProtocol fields, per protocol object
  constructed,          \* number of TelloProtocol objects constructed
  connected,
  transport,
  last_response_time,
  command_queue,
  reconnect_task,       \* "None", "pending", "sleeping", "done"
  retries,
  retry_delay,          \* a rational <<numerator, denominator>>
  \* module globals
  need_reconnect,       \* command_protocol.need_reconnect
  bridge_need_reconnect,\* tello_bridge.need_reconnect, bound by the import
  \* TelloBridge fields and coroutines
  tello_protocol,
  cmd_transport,
  tello_command_handler,\* the protocol whose send_to_tello the server got
  health_task,          \* "None", "sleeping"
  bridge_pc,            \* position of start()/_main_loop()
  \* the event loop and the network
  tstate,               \* per transport: "none","new","open","closing","closed"
  wire,                 \* the transport.sendto calls, in order
  broadcast_tasks,      \* broadcast tasks scheduled and not finished
  now,                  \* loop.time()
  \* history
  ncalls,               \* send calls made by clients so far
  rebuilds,             \* socket rebuilds done by the main loop
  episodes,             \* reconnection tasks created so far
  reported_failed,      \* per protocol: "Failed to reconnect" was logged
  last,                 \* the operation that produced this state
  \* the WebSocket side (websocket/__init__.py) and the datagram handlers
  connected_websockets, \* per client handle: times it is in the registry
  ready,                \* the event loop's queue of tasks ready to run
  bcast,                \* per broadcast task: its state, targets, results
  envelope,             \* per broadcast task: the message it was given
  submitted,            \* per client: broadcasts written to its connection
  state_last_response_time, \* TelloStateProtocol.last_response_time
  ndgrams,              \* datagrams that have arrived so far
  handlers,             \* per client handle: handle_websocket calls running
  \* history of TelloBridge.stop
  stop_log,             \* what stop() has done so far, in order
  \* TelloStateProtocol.parse_state_data
  segs,                 \* the segments the telemetry line was made of
  line,                 \* the telemetry line, a sequence of characters
  parsed                \* the dictionary parse_state_data returned

protoVars == <<constructed, connected, transport, last_response_time,
               command_queue, reconnect_task, retries, retry_delay>>
bridgeVars == <<tello_protocol, cmd_transport, tello_command_handler,
                health_task, bridge_pc>>
wsData == <<connected_websockets, ready, bcast, envelope, submitted,
            state_last_response_time, ndgrams, handlers>>
parseVars == <<segs, line, parsed>>
wsVars == <<wsData, stop_log, parseVars>>
vars == <<constructed, connected, transport, last_response_time,
          command_queue, reconnect_task, retries, retry_delay,
          need_reconnect, bridge_need_reconnect,
          tello_protocol, cmd_transport, tello_command_handler,
          health_task, bridge_pc,
          tstate, wire, broadcast_tasks, now,
          ncalls, rebuilds, episodes, reported_failed, last,
          connected_websockets, ready, bcast, envelope, submitted,
          state_last_response_time, ndgrams, handlers, stop_log,
          segs, line, parsed>>

\* the WebSocket connection objects that clients are handled through
Clients == {1, 2}
Bcasts == 1..MaxDgrams
\* a broadcast task that does not exist yet
NoBroadcast ==
  [st |-> "none", targets |-> {}, res |-> [w \in Clients |-> "none"]]

\* parse_state_data has not returned
NotParsed == [raised |-> "", data |-> <<>>, done |-> FALSE]

NoArg == [kind |-> "", text |-> ""]
Op(name, p) == [op |-> name, p |-> p, arg |-> NoArg]

\* ---- rationals, for retry_delay ----
RatLeq(a, b) == a[1] * b[2] <= b[1] * a[2]
RatEq(a, b) == a[1] * b[2] = b[1] * a[2]
RatMin(a, b) == IF RatLeq(a, b) THEN a ELSE b
RatTimes(a, n, d) == <<a[1] * n, a[2] * d>>

\* ---- the protocol object's code, as functions of the heap ----
\* The heap is the part of the state a callback of the protocol can touch.
Heap ==
  [connected |-> connected, transport |-> transport,
   command_queue |-> command_queue, reconnect_task |-> reconnect_task,
   wire |-> wire]

\* a callback's result becomes the state; a reconnection task it created
\* is counted
Commit(h) ==
  /\ LET created == {p \in Protos : h.reconnect_task[p] = "pending"
                                     /\ reconnect_task[p] # "pending"}
     IN /\ episodes + Cardinality(created) <= MaxEpisodes
        /\ episodes' = episodes + Cardinality(created)
  /\ connected' = h.connected
  /\ transport' = h.transport
  /\ command_queue' = h.command_queue
  /\ reconnect_task' = h.reconnect_task
  /\ wire' = h.wire

\* str.encode('utf-8'): a str becomes bytes, bytes are passed as they are
Encode(m) == IF m.kind = "str" THEN [m EXCEPT !.kind = "bytes"] ELSE m

\* transport.sendto(data, addr)
sendto(h, t, data, addr) ==
  [h EXCEPT !.wire = Append(@, [data |-> data, addr |-> addr, via |-> t])]

\* BaseProtocol.connection_made
base_connection_made(h, p, t) ==
  [h EXCEPT !.transport[p] = t, !.connected[p] = TRUE]

\* BaseProtocol.connection_lost and BaseProtocol.error_received
base_connection_lost(h, p) == [h EXCEPT !.connected[p] = FALSE]
base_error_received(h, p) == [h EXCEPT !.connected[p] = FALSE]

\* send_to_tello without the `return` that ends the queuing branch
send_to_tello_falls_through(h, p, message) ==
  LET q == IF ~h.connected[p]
           THEN [h EXCEPT !.command_queue[p] = Append(@, message)]
           ELSE h
  IN IF h.transport[p] = None THEN q
     ELSE sendto(q, h.transport[p], Encode(message), TelloAddr)

\* TelloProtocol.send_to_tello
send_to_tello(h, p, message) ==
  IF ~h.connected[p]
  THEN [h EXCEPT !.command_queue[p] = Append(@, message)]
  ELSE IF h.transport[p] = None
  THEN h
  ELSE sendto(h, h.transport[p], Encode(message), TelloAddr)

\* the for loop of _process_command_queue, over the live list
RECURSIVE process_loop(_, _, _)
process_loop(h, p, i) ==
  IF i > Len(h.command_queue[p]) THEN h
  ELSE process_loop(send_to_tello(h, p, h.command_queue[p][i]), p, i + 1)

\* _process_command_queue without `self.command_queue = []`
process_command_queue_keeps(h, p) ==
  IF h.command_queue[p] = <<>> THEN h ELSE process_loop(h, p, 1)

\* TelloProtocol._process_command_queue
process_command_queue(h, p) ==
  IF h.command_queue[p] = <<>> THEN h
  ELSE [process_loop(h, p, 1) EXCEPT !.command_queue[p] = <<>>]

\* connection_made sending the probe before the queued commands
connection_made_probe_first(h, p, t) ==
  process_command_queue(send_to_tello(base_connection_made(h, p, t), p, Probe),
                        p)

\* connection_made without the call of _process_command_queue
connection_made_no_flush(h, p, t) ==
  send_to_tello(base_connection_made(h, p, t), p, Probe)

\* TelloProtocol.connection_made
connection_made(h, p, t) ==
  send_to_tello(process_command_queue(base_connection_made(h, p, t), p),
                p, Probe)

\* _schedule_reconnect without the test of the running task
schedule_reconnect_unguarded(h, p) ==
  [h EXCEPT !.reconnect_task[p] = "pending"]

\* TelloProtocol._schedule_reconnect
schedule_reconnect(h, p) ==
  IF h.reconnect_task[p] # "None" /\ h.reconnect_task[p] # "done"
  THEN h
  ELSE [h EXCEPT !.reconnect_task[p] = "pending"]

\* TelloProtocol.connection_lost
connection_lost(h, p) == schedule_reconnect(base_connection_lost(h, p), p)

\* error_received without the call of _schedule_reconnect
error_received_only_base(h, p) == base_error_received(h, p)

\* TelloProtocol.error_received
error_received(h, p) == schedule_reconnect(base_error_received(h, p), p)

\* TelloProtocol.__init__ (with BaseProtocol.__init__) for object p
Construct(p) ==
  /\ constructed' = p
  /\ connected' = [connected EXCEPT ![p] = FALSE]
  /\ transport' = [transport EXCEPT ![p] = None]
  /\ last_response_time' = [last_response_time EXCEPT ![p] = 0]
  /\ command_queue' = [command_queue EXCEPT ![p] = <<>>]
  /\ reconnect_task' = [reconnect_task EXCEPT ![p] = "None"]

\* the backoff without its cap
next_delay_uncapped(d) == RatTimes(d, BackoffNum, BackoffDen)

\* retry_delay = min(30, retry_delay * 1.5)
next_delay(d) == RatMin(<<DelayCap, 1>>, RatTimes(d, BackoffNum, BackoffDen))

\* ---- TelloProtocol._reconnect, one step of the task: from where it is
\* suspended to its next await (or its end) ----
ReconnectStep(p) ==
  /\ p <= constructed
  /\ reconnect_task[p] \in {"pending", "sleeping"}
  /\ LET r == IF reconnect_task[p] = "pending" THEN 0 ELSE retries[p] + 1
         d == IF reconnect_task[p] = "pending" THEN <<InitialRetryDelay, 1>>
              ELSE next_delay(retry_delay[p])
     IN /\ retries' = [retries EXCEPT ![p] = r]
        /\ retry_delay' = [retry_delay EXCEPT ![p] = d]
        /\ IF ~connected[p] /\ r < MaxRetries
           THEN /\ need_reconnect' = TRUE
                /\ reconnect_task' = [reconnect_task EXCEPT ![p] = "sleeping"]
                /\ UNCHANGED reported_failed
           ELSE /\ reconnect_task' = [reconnect_task EXCEPT ![p] = "done"]
                /\ reported_failed' =
                     [reported_failed EXCEPT ![p] = @ \/ ~connected[p]]
                /\ UNCHANGED need_reconnect
  /\ last' = Op("reconnect_step", p)
  /\ UNCHANGED wsVars
  /\ UNCHANGED <<constructed, connected, transport, last_response_time,
                 command_queue, bridge_need_reconnect, bridgeVars, tstate,
                 wire, broadcast_tasks, now, ncalls, rebuilds, episodes>>

\* ---- a caller invokes send_to_tello(message) on object p ----
CallSend(p, payload) ==
  /\ p <= constructed
  /\ ncalls < MaxCmds
  /\ Len(wire) < MaxWire
  /\ ncalls' = ncalls + 1
  /\ Commit(send_to_tello(Heap, p,
        [kind |-> payload.kind, text |-> payload.text, call |-> ncalls + 1]))
  /\ last' = [op |-> "send_to_tello", p |-> p, arg |-> payload]
  /\ UNCHANGED wsVars
  /\ UNCHANGED <<constructed, last_response_time, retries, retry_delay,
                 need_reconnect, bridge_need_reconnect, bridgeVars, tstate,
                 broadcast_tasks, now, rebuilds, reported_failed>>

\* ---- the transport calls connection_made ----
ConnectionMade(p) ==
  /\ p <= constructed
  /\ Len(wire) + Len(command_queue[p]) < MaxWire
  /\ Commit(connection_made(Heap, p, p))
  /\ tstate' = [tstate EXCEPT ![p] = "open"]
  /\ last' = Op("connection_made", p)
  /\ UNCHANGED wsVars
  /\ UNCHANGED <<constructed, last_response_time, retries, retry_delay,
                 need_reconnect, bridge_need_reconnect, bridgeVars,
                 broadcast_tasks, now, ncalls, rebuilds, reported_failed>>

\* ---- the transport calls error_received ----
ErrorReceived(p) ==
  /\ p <= constructed
  /\ tstate[p] = "open"
  /\ Commit(error_received(Heap, p))
  /\ last' = Op("error_received", p)
  /\ UNCHANGED wsVars
  /\ UNCHANGED <<constructed, last_response_time, retries, retry_delay,
                 need_reconnect, bridge_need_reconnect, bridgeVars, tstate,
                 broadcast_tasks, now, ncalls, rebuilds, reported_failed>>

\* ---- the transport calls connection_lost: after close(), or on a fatal
\* error of an open transport ----
ConnectionLost(p) ==
  /\ p <= constructed
  /\ tstate[p] \in {"open", "closing"}
  /\ Commit(connection_lost(Heap, p))
  /\ tstate' = [tstate EXCEPT ![p] = "closed"]
  /\ last' = Op("connection_lost", p)
  /\ UNCHANGED wsVars
  /\ UNCHANGED <<constructed, last_response_time, retries, retry_delay,
                 need_reconnect, bridge_need_reconnect, bridgeVars,
                 broadcast_tasks, now, ncalls, rebuilds, reported_failed>>

\* ---- TelloProtocol.datagram_received; decodes says whether the bytes
\* are valid UTF-8 ----
DatagramReceived(p, decodes) ==
  /\ p <= constructed
  /\ tstate[p] = "open"
  /\ last_response_time' = [last_response_time EXCEPT ![p] = now]
  /\ IF decodes
     THEN /\ broadcast_tasks < 1
          /\ broadcast_tasks' = broadcast_tasks + 1
     ELSE UNCHANGED broadcast_tasks
  /\ last' = Op(IF decodes THEN "datagram_text" ELSE "datagram_binary", p)
  /\ UNCHANGED wsVars
  /\ UNCHANGED <<constructed, connected, transport, command_queue,
                 reconnect_task, retries, retry_delay, need_reconnect,
                 bridge_need_reconnect, bridgeVars, tstate, wire, now,
                 ncalls, rebuilds, episodes, reported_failed>>

\* ---- a scheduled broadcast task runs to its end ----
BroadcastDone ==
  /\ broadcast_tasks > 0
  /\ broadcast_tasks' = broadcast_tasks - 1
  /\ last' = Op("broadcast", None)
  /\ UNCHANGED wsVars
  /\ UNCHANGED <<protoVars, need_reconnect, bridge_need_reconnect,
                 bridgeVars, tstate, wire, now, ncalls, rebuilds, episodes,
                 reported_failed>>

\* ---- time passes ----
Tick ==
  /\ now + TickLen <= MaxTime
  /\ now' = now + TickLen
  /\ last' = Op("tick", None)
  /\ UNCHANGED wsVars
  /\ UNCHANGED <<protoVars, need_reconnect, bridge_need_reconnect,
                 bridgeVars, tstate, wire, broadcast_tasks, ncalls,
                 rebuilds, episodes, reported_failed>>

\* ---- state before anything is constructed ----
Blank ==
  /\ connected = [p \in Protos |-> FALSE]
  /\ transport = [p \in Protos |-> None]
  /\ last_response_time = [p \in Protos |-> 0]
  /\ command_queue = [p \in Protos |-> <<>>]
  /\ reconnect_task = [p \in Protos |-> "None"]
  /\ retries = [p \in Protos |-> 0]
  /\ retry_delay = [p \in Protos |-> <<InitialRetryDelay, 1>>]
  /\ need_reconnect = FALSE
  /\ bridge_need_reconnect = FALSE
  /\ tello_protocol = None
  /\ cmd_transport = None
  /\ tello_command_handler = None
  /\ health_task = "None"
  /\ bridge_pc = "init"
  /\ tstate = [p \in Protos |-> "none"]
  /\ wire = <<>>
  /\ broadcast_tasks = 0
  /\ now = 1
  /\ ncalls = 0
  /\ rebuilds = 0
  /\ episodes = 0
  /\ reported_failed = [p \in Protos |-> FALSE]
  /\ last = Op("init", None)
  /\ connected_websockets = [w \in Clients |-> 0]
  /\ ready = <<>>
  /\ bcast = [b \in Bcasts |-> NoBroadcast]
  /\ envelope = [b \in Bcasts |-> [origin |-> "none"]]
  /\ submitted = [w \in Clients |-> <<>>]
  /\ state_last_response_time = 0
  /\ ndgrams = 0
  /\ handlers = [w \in Clients |-> 0]
  /\ stop_log = <<>>

\* no telemetry line is being parsed
NoLine == segs = <<>> /\ line = <<>> /\ parsed = NotParsed

\* ---- ProtoSpec: one TelloProtocol object, constructed and not yet
\* connected, and the callers of its methods ----
ProtoInit == Blank /\ constructed = 1 /\ NoLine

ProtoConnectionMade == \E p \in Protos : ~connected[p] /\ ConnectionMade(p)
ProtoSend == \E p \in Protos, m \in ClientPayloads : CallSend(p, m)
ProtoErrorReceived == \E p \in Protos : ErrorReceived(p)
ProtoConnectionLost == \E p \in Protos : ConnectionLost(p)
ProtoReconnectStep == \E p \in Protos : ReconnectStep(p)

ProtoNext ==
  \/ ProtoConnectionMade
  \/ ProtoSend
  \/ ProtoErrorReceived
  \/ ProtoConnectionLost
  \/ ProtoReconnectStep

ProtoSpec == ProtoInit /\ [][ProtoNext]_vars

\* ---- the running bridge ----
\* the WebSocket server exists and has not finished closing: handlers run
ServerRunning ==
  bridge_pc \in {"main_sleep", "rebuild_await_endpoint", "settle",
                 "stop_await_closed"}

\* TelloBridge.start up to its first suspension: the health task is
\* created, _setup_sockets calls _create_udp_socket, which constructs the
\* protocol and the transport; connection_made is scheduled.
Start ==
  /\ bridge_pc = "init"
  /\ constructed < MaxProtos
  /\ health_task' = "sleeping"
  /\ Construct(constructed + 1)
  /\ tstate' = [tstate EXCEPT ![constructed + 1] = "new"]
  /\ bridge_pc' = "start_await_endpoint"
  /\ last' = Op("start", None)
  /\ UNCHANGED wsVars
  /\ UNCHANGED <<retries, retry_delay, need_reconnect, bridge_need_reconnect,
                 tello_protocol, cmd_transport, tello_command_handler,
                 wire, broadcast_tasks, now, ncalls, rebuilds, episodes,
                 reported_failed>>

\* the body of `while True` in _main_loop, up to its next await
MainLoopIter ==
  IF bridge_need_reconnect
  THEN /\ constructed < MaxProtos
       /\ Construct(constructed + 1)
       /\ tstate' = [p \in Protos |->
                       IF p = constructed + 1 THEN "new"
                       ELSE IF p = cmd_transport /\ tstate[p] \in {"new", "open"}
                            THEN "closing"
                            ELSE tstate[p]]
       /\ bridge_pc' = "rebuild_await_endpoint"
  ELSE /\ bridge_pc' = "main_sleep"
       /\ UNCHANGED <<constructed, connected, transport, last_response_time,
                      command_queue, reconnect_task, tstate>>

\* TelloBridge.start after _create_udp_socket and TelloBridge._main_loop:
\* one step of the coroutine, from where it is suspended to its next await
BridgeStep ==
  /\ bridge_pc \in {"start_await_endpoint", "start_await_server",
                    "main_sleep", "rebuild_await_endpoint", "settle"}
  /\ CASE bridge_pc = "start_await_endpoint" ->
            /\ tstate[constructed] # "new"
            /\ cmd_transport' = constructed
            /\ tello_protocol' = constructed
            /\ bridge_pc' = "start_await_server"
            /\ UNCHANGED <<protoVars, tstate, wire, bridge_need_reconnect,
                           tello_command_handler, rebuilds, episodes>>
       [] bridge_pc = "start_await_server" ->
            /\ tello_command_handler' = tello_protocol
            /\ MainLoopIter
            /\ UNCHANGED <<retries, retry_delay, wire, bridge_need_reconnect,
                           tello_protocol, cmd_transport, rebuilds, episodes>>
       [] bridge_pc = "main_sleep" ->
            /\ MainLoopIter
            /\ UNCHANGED <<retries, retry_delay, wire, bridge_need_reconnect,
                           tello_protocol, cmd_transport,
                           tello_command_handler, rebuilds, episodes>>
       [] bridge_pc = "rebuild_await_endpoint" ->
            /\ tstate[constructed] # "new"
            /\ cmd_transport' = constructed
            /\ tello_protocol' = constructed
            /\ bridge_need_reconnect' = FALSE
            /\ rebuilds' = rebuilds + 1
            /\ bridge_pc' = "settle"
            /\ UNCHANGED <<protoVars, tstate, wire, tello_command_handler,
                           episodes>>
       [] bridge_pc = "settle" ->
            /\ Len(wire) < MaxWire
            /\ Commit(send_to_tello(Heap, tello_protocol, Probe))
            /\ bridge_pc' = "main_sleep"
            /\ UNCHANGED <<constructed, last_response_time, retries,
                           retry_delay, tstate, bridge_need_reconnect,
                           tello_protocol, cmd_transport,
                           tello_command_handler, rebuilds>>
  /\ last' = Op("bridge_step", None)
  /\ UNCHANGED wsVars
  /\ UNCHANGED <<need_reconnect, health_task, broadcast_tasks, now, ncalls,
                 reported_failed>>

\* TelloBridge._health_monitor: one tick, from the end of its sleep to the
\* next sleep
\* the silence test with >= in place of >
HealthProbeDue_inclusive ==
  /\ tello_protocol # None
  /\ connected[tello_protocol]
  /\ last_response_time[tello_protocol] > 0
  /\ now - last_response_time[tello_protocol] >= HealthThreshold

\* the test of _health_monitor that decides on a probe
HealthProbeDue ==
  /\ tello_protocol # None
  /\ connected[tello_protocol]
  /\ last_response_time[tello_protocol] > 0
  /\ now - last_response_time[tello_protocol] > HealthThreshold

\* a health monitor that treats silence as a transport loss
HealthMonitorStep_forces_reconnect ==
  /\ health_task = "sleeping"
  /\ IF HealthProbeDue
     THEN /\ Len(wire) < MaxWire
          /\ Commit(schedule_reconnect(
                 base_connection_lost(send_to_tello(Heap, tello_protocol, Probe),
                                      tello_protocol),
                 tello_protocol))
     ELSE UNCHANGED <<connected, transport, command_queue, reconnect_task,
                      wire, episodes>>
  /\ bridge_need_reconnect' =
       (IF bridge_need_reconnect THEN FALSE ELSE bridge_need_reconnect)
  /\ last' = Op("health_tick", None)
  /\ UNCHANGED wsVars
  /\ UNCHANGED <<constructed, last_response_time, retries, retry_delay,
                 need_reconnect, bridgeVars, tstate, broadcast_tasks, now,
                 ncalls, rebuilds, reported_failed>>

HealthMonitorStep ==
  /\ health_task = "sleeping"
  /\ IF HealthProbeDue
     THEN /\ Len(wire) < MaxWire
          /\ Commit(send_to_tello(Heap, tello_protocol, Probe))
     ELSE UNCHANGED <<connected, transport, command_queue, reconnect_task,
                      wire, episodes>>
  /\ bridge_need_reconnect' =
       (IF bridge_need_reconnect THEN FALSE ELSE bridge_need_reconnect)
  /\ last' = Op("health_tick", None)
  /\ UNCHANGED wsVars
  /\ UNCHANGED <<constructed, last_response_time, retries, retry_delay,
                 need_reconnect, bridgeVars, tstate, broadcast_tasks, now,
                 ncalls, rebuilds, reported_failed>>

\* handle_websocket: a client message is handed to the handler the server
\* was started with
ClientMessage(payload) ==
  /\ ServerRunning
  /\ IF tello_command_handler # None
     THEN CallSend(tello_command_handler, payload)
     ELSE /\ ncalls < MaxCmds
          /\ ncalls' = ncalls + 1
          /\ last' = Op("discarded", None)
          /\ UNCHANGED wsVars
          /\ UNCHANGED <<protoVars, need_reconnect, bridge_need_reconnect,
                         bridgeVars, tstate, wire, broadcast_tasks, now,
                         rebuilds, episodes, reported_failed>>

\* the event loop runs the connection_made scheduled by a new transport
EvConnectionMade == \E p \in Protos : tstate[p] = "new" /\ ConnectionMade(p)
EvErrorReceived == \E p \in Protos : ErrorReceived(p)
EvConnectionLost == \E p \in Protos : ConnectionLost(p)
EvDatagramReceived == \E p \in Protos, d \in BOOLEAN : DatagramReceived(p, d)
EvClientMessage == \E m \in ClientPayloads : ClientMessage(m)
EvReconnectStep == \E p \in Protos : ReconnectStep(p)

Init == Blank /\ constructed = 0 /\ NoLine

Next ==
  \/ Start
  \/ BridgeStep
  \/ HealthMonitorStep
  \/ EvReconnectStep
  \/ EvConnectionMade
  \/ EvErrorReceived
  \/ EvConnectionLost
  \/ EvDatagramReceived
  \/ EvClientMessage
  \/ BroadcastDone
  \/ Tick

Spec == Init /\ [][Next]_vars

\* The event loop runs every ready callback and every task whose sleep is
\* over; the network and the clients are under no obligation.  The clock and
\* the inbound datagrams play no part in reconnection and are left out.
FairNext ==
  \/ Start
  \/ BridgeStep
  \/ HealthMonitorStep
  \/ EvReconnectStep
  \/ EvConnectionMade
  \/ EvErrorReceived
  \/ EvConnectionLost
  \/ EvClientMessage

FairSpec ==
  /\ Init
  /\ [][FairNext]_vars
  /\ WF_vars(Start)
  /\ WF_vars(BridgeStep)
  /\ WF_vars(HealthMonitorStep)
  /\ WF_vars(EvReconnectStep)
  /\ WF_vars(EvConnectionMade)
  /\ WF_vars(\E p \in Protos : tstate[p] = "closing" /\ ConnectionLost(p))

\* ======================= properties =======================
\* the datagram that carries message m through transport t
Datagram(m, t) ==
  [data |-> [kind |-> "bytes", text |-> m.text, call |-> m.call],
   addr |-> TelloAddr, via |-> t]
Datagrams(q, t) == [i \in 1..Len(q) |-> Datagram(q[i], t)]
Transmissions(c) == {i \in DOMAIN wire : wire[i].data.call = c}
Reconnecting(p) == ~connected[p] /\ reconnect_task[p] \in {"pending", "sleeping"}

\* C1: the commands submitted while the channel is not Connected wait in the
\* pending queue in enqueue order, untransmitted; connection_made transmits
\* each of them once, in that order, then the probe "command", and leaves the
\* queue empty.
C1_QueuedInOrder ==
  \A p \in Protos : \A i \in DOMAIN command_queue[p] :
     /\ \A j \in 1..(i - 1) : command_queue[p][j].call < command_queue[p][i].call
     /\ Transmissions(command_queue[p][i].call) = {}
C1_FlushStep ==
  \A p \in Protos :
     (last'.op = "connection_made" /\ last'.p = p) =>
        /\ wire' = wire \o Datagrams(command_queue[p], p) \o <<Datagram(Probe, p)>>
        /\ command_queue'[p] = <<>>
C1_FlushThenProbe == []C1_QueuedInOrder /\ [][C1_FlushStep]_vars
C1_Witness ==
  /\ last.op = "connection_made"
  /\ Len(wire) = 3
  /\ wire[1].data.call = 1 /\ wire[2].data.call = 2 /\ wire[3] = Datagram(Probe, 1)
  /\ command_queue[1] = <<>>

\* C2: a command queued after a transport error is eventually transmitted.
C2_QueuedEventuallySent ==
  \A c \in 1..MaxCmds :
     (\E p \in Protos : \E i \in DOMAIN command_queue[p] :
          command_queue[p][i].call = c /\ reconnect_task[p] # "None")
       ~> (Transmissions(c) # {})

\* C3: once the reconnect-requested signal is set, the main loop eventually
\* rebuilds the command socket and sends the probe through the new channel.
C3_SignalLeadsToRebuild ==
  need_reconnect ~>
     (/\ rebuilds > 0
      /\ \E i \in DOMAIN wire : wire[i] = Datagram(Probe, tello_protocol))

\* C4: when no reconnection episode is in progress, exactly one socket
\* rebuild has been performed for each episode.
C4_OneRebuildPerEpisode ==
  (\A p \in Protos : reconnect_task[p] \notin {"pending", "sleeping"})
     => rebuilds = episodes

\* C5: each command submitted by one send call is on the wire at most once.
C5_AtMostOnce == \A c \in 1..MaxCmds : Cardinality(Transmissions(c)) <= 1
C5_Witness ==
  /\ last.op = "connection_made"
  /\ Len(wire) = 3
  /\ wire[1].data.call = 1 /\ wire[2].data.call = 0 /\ wire[3].data.call = 0

\* C6: send_to_tello either appends the command to the pending queue and
\* transmits nothing (not Connected), or transmits one datagram carrying the
\* command to the device address and leaves the queues alone (Connected).
C6_SendStep ==
  last'.op = "send_to_tello" =>
     LET p == last'.p
         m == [kind |-> last'.arg.kind, text |-> last'.arg.text, call |-> ncalls']
     IN IF connected[p]
        THEN /\ wire' = Append(wire, Datagram(m, transport[p]))
             /\ command_queue' = command_queue
        ELSE /\ command_queue' = [command_queue EXCEPT ![p] = Append(@, m)]
             /\ wire' = wire
C6_SendQueuesOrTransmits == [][C6_SendStep]_vars
C6_Witness ==
  /\ last.op = "send_to_tello"
  /\ Len(command_queue[1]) = 1
  /\ command_queue[1][1].call = 2
  /\ Transmissions(1) # {}

\* C7: the n-th delay of a reconnection episode is 5, 7.5, 11.25, 16.875,
\* 25.3125, 30, 30, 30, 30, 30; an episode has at most 10 attempts; a step of
\* the task that finds the channel Connected ends the episode.
ClaimedDelays ==
  << <<5, 1>>, <<15, 2>>, <<45, 4>>, <<135, 8>>, <<405, 16>>,
     <<30, 1>>, <<30, 1>>, <<30, 1>>, <<30, 1>>, <<30, 1>> >>
C7_Delays ==
  \A p \in Protos :
     reconnect_task[p] = "sleeping" =>
        /\ retries[p] < 10
        /\ RatEq(retry_delay[p], ClaimedDelays[retries[p] + 1])
C7_StopStep ==
  \A p \in Protos :
     (last'.op = "reconnect_step" /\ last'.p = p /\ connected[p]) =>
        /\ reconnect_task'[p] = "done"
        /\ need_reconnect' = need_reconnect
C7_Backoff == []C7_Delays /\ [][C7_StopStep]_vars
C7_Witness ==
  /\ reconnect_task[1] = "sleeping"
  /\ retries[1] = 9
  /\ retry_delay[1] = <<30, 1>>

\* C8: after an episode has exhausted its attempts, no reconnection loop
\* runs again.
C8_NoLoopAfterExhaustion ==
  \A p \in Protos : reported_failed[p] => reconnect_task[p] = "done"

\* C9: a health-monitor tick sends no probe when no datagram was ever
\* received, no probe when the silence is 15 or less, and exactly one probe
\* "command" when the channel is Connected, has received a datagram and the
\* silence is more than 15.
C9_TickStep ==
  (last'.op = "health_tick" /\ tello_protocol # None) =>
     LET p == tello_protocol
         silence == now - last_response_time[p]
     IN /\ last_response_time[p] = 0 => wire' = wire
        /\ silence <= 15 => wire' = wire
        /\ (connected[p] /\ last_response_time[p] > 0 /\ silence > 15)
              => wire' = Append(wire, Datagram(Probe, transport[p]))
C9_HealthProbe == [][C9_TickStep]_vars
C9_Witness ==
  /\ last.op = "health_tick"
  /\ ncalls = 0
  /\ Len(wire) = 3
  /\ connected[1]
  /\ last_response_time[1] > 0
  /\ now - last_response_time[1] > 15

\* C10 as stated: both a transport error and the health monitor's detection
\* of more than 15 time units of silence take the channel from Connected to
\* Reconnecting.
C10_ErrorStep ==
  \A p \in Protos :
     (last'.op = "error_received" /\ last'.p = p /\ connected[p])
        => Reconnecting(p)'
C10_SilenceStep ==
  (/\ last'.op = "health_tick"
   /\ tello_protocol # None
   /\ connected[tello_protocol]
   /\ last_response_time[tello_protocol] > 0
   /\ now - last_response_time[tello_protocol] > 15)
     => Reconnecting(tello_protocol)'
C10_BothTriggers == [][C10_ErrorStep /\ C10_SilenceStep]_vars

\* C10 amended: a transport error takes the channel from Connected to
\* Reconnecting; a health-monitor tick leaves the connection state and the
\* reconnection task as they are.
C10_TickKeepsState ==
  last'.op = "health_tick" =>
     (connected' = connected /\ reconnect_task' = reconnect_task)
C10_OnlyErrorTriggers == [][C10_ErrorStep /\ C10_TickKeepsState]_vars
C10_Witness ==
  /\ last.op = "error_received"
  /\ Reconnecting(1)
  /\ \E i \in DOMAIN wire : wire[i] = Datagram(Probe, 1)


\* C11: a health-monitor tick that detects more than 15 time units of
\* silence sends the probe and nothing else: the connection state, the
\* reconnection tasks, the reconnect-requested signals, the transports and
\* the number of rebuilds stay as they are.
C11_SilentTickStep ==
  (/\ last'.op = "health_tick"
   /\ tello_protocol # None
   /\ connected[tello_protocol]
   /\ last_response_time[tello_protocol] > 0
   /\ now - last_response_time[tello_protocol] > 15)
     => /\ wire' = Append(wire, Datagram(Probe, transport[tello_protocol]))
        /\ connected' = connected
        /\ reconnect_task' = reconnect_task
        /\ episodes' = episodes
        /\ need_reconnect' = need_reconnect
        /\ bridge_need_reconnect' = bridge_need_reconnect
        /\ rebuilds' = rebuilds
        /\ constructed' = constructed
        /\ tstate' = tstate
        /\ tello_protocol' = tello_protocol
        /\ cmd_transport' = cmd_transport
C11_SilenceOnlyProbes == [][C11_SilentTickStep]_vars
C11_Witness ==
  /\ last.op = "health_tick"
  /\ ncalls = 0
  /\ Len(wire) = 2
  /\ connected[1]
  /\ reconnect_task[1] = "None"
  /\ last_response_time[1] > 0
  /\ now - last_response_time[1] > 15


\* ======================================================================
\* The WebSocket side: the client registry, broadcast_to_websockets and
\* the datagram handlers that schedule broadcasts.
\* The event loop runs ready tasks first in, first out.  A task runs from
\* one suspension point to the next in one step.
\* ======================================================================

\* the datagrams the device can send on the command channel: the bytes of
\* "ok", and a byte that is not UTF-8
CmdPayloads == { <<111, 107>>, <<255>> }
\* the datagrams on the state channel: the bytes of "h:1", and a byte that
\* is not UTF-8
StatePayloads == { <<104, 58, 49>>, <<255>> }

WsHeap ==
  [connected_websockets |-> connected_websockets, ready |-> ready,
   bcast |-> bcast, envelope |-> envelope, submitted |-> submitted]

WsCommit(h) ==
  /\ connected_websockets' = h.connected_websockets
  /\ ready' = h.ready
  /\ bcast' = h.bcast
  /\ envelope' = h.envelope
  /\ submitted' = h.submitted

\* the members of the registry
Members(s) == {w \in Clients : s[w] > 0}

\* list.append in place of set.add
set_add_appends(s, w) == [s EXCEPT ![w] = @ + 1]

\* set.add
set_add(s, w) == [s EXCEPT ![w] = 1]

\* set.remove of a member
set_remove(s, w) == [s EXCEPT ![w] = @ - 1]

\* data.decode('utf-8') of bytes that are ASCII or invalid
decode(data) ==
  IF \A i \in 1..Len(data) : data[i] < 128
  THEN [ok |-> TRUE, text |-> data]
  ELSE [ok |-> FALSE, text |-> <<>>]

BroadcastTask(b) == [kind |-> "broadcast", b |-> b, w |-> 0]
SendTask(b, w) == [kind |-> "send", b |-> b, w |-> w]

\* a loop that runs the newest ready task first
call_soon_lifo(q, t) == <<t>> \o q

\* loop.call_soon, by which a new task gets its first step
call_soon(q, t) == Append(q, t)

\* asyncio.create_task(broadcast_to_websockets(message))
create_broadcast_task(h, message) ==
  LET b == CHOOSE x \in Bcasts :
             /\ h.bcast[x].st = "none"
             /\ \A y \in Bcasts : y < x => h.bcast[y].st # "none"
  IN [h EXCEPT !.bcast[b].st = "scheduled",
               !.envelope[b] = message,
               !.ready = call_soon(@, BroadcastTask(b))]

\* the orders in which a set can be iterated
Orders(S) ==
  {o \in [1..Cardinality(S) -> S] :
     \A i, j \in 1..Cardinality(S) : o[i] = o[j] => i = j}

\* gather without return_exceptions: the first failure is raised in the
\* awaiting broadcast
gather_result_propagates(r) ==
  IF \E w \in r.targets : r.res[w] = "failed" THEN "raised"
  ELSE IF \A w \in r.targets : r.res[w] = "ok" THEN "returned"
  ELSE "gathering"

\* await asyncio.gather(*tasks, return_exceptions=True): the broadcast
\* resumes and returns when every send has returned or raised
gather_result(r) ==
  IF \A w \in r.targets : r.res[w] \in {"ok", "failed"} THEN "returned"
  ELSE "gathering"

\* a broadcast that awaits one send before it starts the next
RECURSIVE gather_schedule_sequential(_, _, _, _)
gather_schedule_sequential(q, b, order, i) ==
  IF i > Len(order) THEN q ELSE call_soon(q, SendTask(b, order[i]))

\* asyncio.gather wraps each coroutine in a task, in the order given
RECURSIVE gather_schedule(_, _, _, _)
gather_schedule(q, b, order, i) ==
  IF i > Len(order) THEN q
  ELSE gather_schedule(call_soon(q, SendTask(b, order[i])), b, order, i + 1)

\* broadcast_to_websockets, up to its await
broadcast_to_websockets(h, b, order) ==
  IF Members(h.connected_websockets) = {}
  THEN [h EXCEPT !.bcast[b].st = "returned"]
  ELSE [h EXCEPT !.bcast[b].st = "gathering",
                 !.bcast[b].targets = Members(h.connected_websockets),
                 !.bcast[b].res =
                    [w \in Clients |->
                       IF w \in Members(h.connected_websockets)
                       THEN "scheduled" ELSE "none"],
                 !.ready = gather_schedule(@, b, order, 1)]

\* a send reaches the outcome given; if it was the last one the broadcast
\* resumes and ends, and its list of sends is dropped
send_done(h, b, w, outcome) ==
  LET r == [h.bcast[b] EXCEPT !.res[w] = outcome]
  IN [h EXCEPT !.bcast[b] =
                 IF gather_result(r) = "gathering" THEN r
                 ELSE [NoBroadcast EXCEPT !.st = gather_result(r)]]

\* websocket.send(message), up to its first suspension: a send that returns
\* or stays pending has written its frame to the connection
send_step(h, b, w, outcome) ==
  send_done([h EXCEPT !.submitted[w] =
                        IF outcome \in {"ok", "pending"}
                        THEN Append(@, b) ELSE @],
            b, w, outcome)


\* datagram_received decoding with errors='replace': nothing is raised and
\* every datagram is broadcast
cmd_datagram_received_replaces(h, data) ==
  create_broadcast_task(h, [origin |-> "command", data |-> decode(data).text])

\* TelloProtocol.datagram_received: what it does to the event loop
cmd_datagram_received(h, data) ==
  IF decode(data).ok
  THEN create_broadcast_task(h, [origin |-> "command",
                                 data |-> decode(data).text])
  ELSE h

\* TelloStateProtocol.datagram_received: what it does to the event loop
state_datagram_received(h, data) ==
  IF decode(data).ok
  THEN create_broadcast_task(h, [origin |-> "state",
                                 raw |-> decode(data).text])
  ELSE h

\* ---- actions of the WebSocket side ----
\* A datagram arrives on the command socket: the loop reads it and calls
\* datagram_received of protocol p with it, in one callback.
CmdDatagramReceived(p, data) ==
  /\ p <= constructed
  /\ ndgrams < MaxDgrams
  /\ ndgrams' = ndgrams + 1
  /\ WsCommit(cmd_datagram_received(WsHeap, data))
  /\ last_response_time' = [last_response_time EXCEPT ![p] = now]
  /\ last' = [op |-> IF decode(data).ok THEN "cmd_text" ELSE "cmd_binary",
              p |-> p, arg |-> [kind |-> "bytes", text |-> data]]
  /\ UNCHANGED <<constructed, connected, transport, command_queue,
                 reconnect_task, retries, retry_delay, need_reconnect,
                 bridge_need_reconnect, bridgeVars, tstate, wire,
                 broadcast_tasks, now, ncalls, rebuilds, episodes,
                 reported_failed, state_last_response_time, handlers,
                 stop_log, parseVars>>

\* A datagram arrives on the state socket: the loop reads it and calls
\* datagram_received of the state protocol with it.
StateDatagramReceived(data) ==
  /\ ndgrams < MaxDgrams
  /\ ndgrams' = ndgrams + 1
  /\ WsCommit(state_datagram_received(WsHeap, data))
  /\ state_last_response_time' = now
  /\ last' = Op(IF decode(data).ok THEN "state_text" ELSE "state_binary",
                None)
  /\ UNCHANGED <<protoVars, need_reconnect, bridge_need_reconnect,
                 bridgeVars, tstate, wire, broadcast_tasks, now, ncalls,
                 rebuilds, episodes, reported_failed, handlers, stop_log,
                 parseVars>>

\* handle_websocket cancelling the sends to the client that left
unregister_cancels(h, w) ==
  [h EXCEPT !.connected_websockets = set_remove(@, w),
            !.ready = SelectSeq(@, LAMBDA t : ~(t.kind = "send" /\ t.w = w))]

\* handle_websocket, its finally clause
unregister(h, w) == [h EXCEPT !.connected_websockets = set_remove(@, w)]

\* handle_websocket, its first statement
register(h, w) == [h EXCEPT !.connected_websockets = set_add(@, w)]

wsRest == <<protoVars, need_reconnect, bridge_need_reconnect, bridgeVars,
            tstate, wire, broadcast_tasks, now, ncalls, rebuilds, episodes,
            reported_failed, state_last_response_time, ndgrams, stop_log,
            parseVars>>

\* handle_websocket is called with the handle w and registers it
HandleWebsocketEnter(w) ==
  /\ handlers[w] < MaxHandlers
  /\ handlers' = [handlers EXCEPT ![w] = @ + 1]
  /\ WsCommit(register(WsHeap, w))
  /\ last' = Op("register", None)
  /\ UNCHANGED wsRest

\* a call of handle_websocket with the handle w leaves its message loop:
\* the finally clause removes w, and raises KeyError if w is not a member
HandleWebsocketExit(w) ==
  /\ handlers[w] > 0
  /\ handlers' = [handlers EXCEPT ![w] = @ - 1]
  /\ IF connected_websockets[w] > 0
     THEN /\ WsCommit(unregister(WsHeap, w))
          /\ last' = Op("unregister", None)
     ELSE /\ WsCommit(WsHeap)
          /\ last' = Op("unregister_keyerror", None)
  /\ UNCHANGED wsRest

\* the event loop runs the first step of the oldest ready task
RunReady ==
  /\ ready # <<>>
  /\ LET t == Head(ready)
         h == [WsHeap EXCEPT !.ready = Tail(@)]
     IN IF t.kind = "broadcast"
        THEN /\ \E order \in Orders(Members(connected_websockets)) :
                  WsCommit(broadcast_to_websockets(h, t.b, order))
             /\ last' = Op("broadcast_start", None)
        ELSE \E outcome \in {"ok", "failed", "pending"} :
                /\ WsCommit(send_step(h, t.b, t.w, outcome))
                /\ last' = Op("send", None)
  /\ UNCHANGED <<wsRest, handlers>>

\* a pending send returns or raises
SendResolve(b, w, outcome) ==
  /\ bcast[b].res[w] = "pending"
  /\ WsCommit(send_done(WsHeap, b, w, outcome))
  /\ last' = Op("send_resolved", None)
  /\ UNCHANGED <<wsRest, handlers>>

\* ---- WsSpec: the two UDP channels, the registry and the event loop,
\* at one instant of the clock ----
WsInit == Blank /\ constructed = 1 /\ NoLine

WsCmdDatagram == \E d \in CmdPayloads : CmdDatagramReceived(1, d)
WsStateDatagram == \E d \in StatePayloads : StateDatagramReceived(d)
\* the server calls the handler once for each connection it accepts
WsRegister == \E w \in Clients : handlers[w] = 0 /\ HandleWebsocketEnter(w)
WsUnregister == \E w \in Clients : HandleWebsocketExit(w)
WsSendResolve ==
  \E b \in Bcasts, w \in Clients, outcome \in {"ok", "failed"} :
     SendResolve(b, w, outcome)

WsNext ==
  \/ WsCmdDatagram
  \/ WsStateDatagram
  \/ WsRegister
  \/ WsUnregister
  \/ RunReady
  \/ WsSendResolve

WsSpec == WsInit /\ [][WsNext]_vars

\* ---- RegSpec: handle_websocket called by any caller, also again with a
\* handle whose handler is still running ----
RegEnter == \E w \in Clients : HandleWebsocketEnter(w)
RegExit == \E w \in Clients : HandleWebsocketExit(w)

RegNext ==
  \/ RegEnter
  \/ RegExit
  \/ WsCmdDatagram
  \/ RunReady

RegSpec == WsInit /\ [][RegNext]_vars

\* ---- DgramSpec: the two UDP channels and the clock, no client connected
DgramNext ==
  \/ WsCmdDatagram
  \/ WsStateDatagram
  \/ RunReady
  \/ Tick

DgramSpec == WsInit /\ [][DgramNext]_vars


\* C12: a command-channel datagram that is not UTF-8 updates the liveness
\* timestamp and schedules nothing; one that decodes updates the timestamp
\* and schedules exactly one broadcast, of {origin: "command", data: text},
\* behind the broadcasts of the datagrams handled before it.
C12_DatagramStep ==
  last'.op \in {"cmd_text", "cmd_binary"} =>
    LET data == last'.arg.text
    IN /\ last_response_time'[last'.p] = now
       /\ IF \A i \in 1..Len(data) : data[i] < 128
          THEN \E b \in Bcasts :
                 /\ bcast[b].st = "none"
                 /\ \A c \in Bcasts : c < b => bcast[c].st # "none"
                 /\ bcast' = [bcast EXCEPT ![b].st = "scheduled"]
                 /\ envelope'[b] = [origin |-> "command", data |-> data]
                 /\ \A c \in Bcasts \ {b} : envelope'[c] = envelope[c]
                 /\ ready' = Append(ready, BroadcastTask(b))
          ELSE /\ bcast' = bcast
               /\ envelope' = envelope
               /\ ready' = ready
C12_DecodeThenBroadcast == [][C12_DatagramStep]_vars
C12_Witness ==
  /\ last.op = "cmd_binary"
  /\ last_response_time[1] = 1 + TickLen
  /\ envelope[1] = [origin |-> "command", data |-> <<111, 107>>]
  /\ bcast[1].st = "scheduled"
  /\ bcast[2].st = "none"
  /\ ready = <<BroadcastTask(1)>>


InReady(t) == \E i \in 1..Len(ready) : ready[i] = t
Received(w) == {submitted[w][i] : i \in 1..Len(submitted[w])}

\* C13: a broadcast never ends with an error, and while it is in progress
\* every client it is sent to either still has its send waiting to run, or
\* has been written the message, or has failed itself: the failed or
\* unfinished send of one client takes nothing from the others.
C13_FailuresIsolated ==
  \A b \in Bcasts :
    /\ bcast[b].st \in {"none", "scheduled", "gathering", "returned"}
    /\ bcast[b].st = "gathering" =>
         \A w \in bcast[b].targets :
            \/ bcast[b].res[w] = "scheduled" /\ InReady(SendTask(b, w))
            \/ bcast[b].res[w] \in {"ok", "pending"} /\ b \in Received(w)
            \/ bcast[b].res[w] = "failed"
C13_Witness ==
  /\ last.op = "send"
  /\ Members(connected_websockets) = {1, 2}
  /\ bcast[1].st = "returned"
  /\ submitted[1] = <<>>
  /\ submitted[2] = <<1>>

\* C14: a broadcast is sent to exactly the clients registered when it
\* started; a client that registers or unregisters while it is in progress
\* changes only its own membership, and every send is to a client that was
\* registered at the start, still registered or not.
C14_Step ==
  /\ last'.op = "broadcast_start" =>
       LET b == Head(ready).b
           snapshot == Members(connected_websockets)
       IN /\ bcast'[b].targets = snapshot
          /\ \A w \in Clients :
               (\E i \in 1..Len(ready') : ready'[i] = SendTask(b, w))
                  <=> w \in snapshot
          /\ bcast'[b].st = IF snapshot = {} THEN "returned" ELSE "gathering"
          /\ connected_websockets' = connected_websockets
  /\ last'.op \in {"register", "unregister"} =>
       /\ bcast' = bcast
       /\ ready' = ready
       /\ submitted' = submitted
       /\ \E w \in Clients :
            /\ connected_websockets'[w] =
                 (IF last'.op = "register" THEN 1 ELSE 0)
            /\ \A v \in Clients \ {w} :
                 connected_websockets'[v] = connected_websockets[v]
  /\ last'.op = "send" =>
       /\ Head(ready).w \in bcast[Head(ready).b].targets
       /\ ready' = Tail(ready)
       /\ connected_websockets' = connected_websockets
C14_SnapshotAtStart == [][C14_Step]_vars
C14_Witness ==
  /\ last.op = "send"
  /\ bcast[1].targets = {1}
  /\ bcast[1].res[1] = "pending"
  /\ Members(connected_websockets) = {2}
  /\ submitted[1] = <<1>>
  /\ submitted[2] = <<>>

\* C15: every client is written the broadcasts in the order in which the
\* datagram handlers scheduled them.
C15_PerClientOrder ==
  \A w \in Clients :
    \A i, j \in 1..Len(submitted[w]) :
       i < j => submitted[w][i] < submitted[w][j]
C15_Witness ==
  /\ submitted[1] = <<1, 2>>
  /\ envelope[1].origin = "state"
  /\ envelope[2].origin = "command"

\* C16: while a send to one client is pending, both channels can handle
\* their next datagram, and the sends of this and of later broadcasts to
\* the other clients are ready to run and can run.
C16_PendingBlocksNothing ==
  (\E b \in Bcasts, w \in Clients : bcast[b].res[w] = "pending") =>
     /\ ndgrams < MaxDgrams =>
          (ENABLED WsCmdDatagram) /\ (ENABLED WsStateDatagram)
     /\ \A b \in Bcasts :
          /\ bcast[b].st = "scheduled" => InReady(BroadcastTask(b))
          /\ \A w \in bcast[b].targets :
               bcast[b].res[w] = "scheduled" => InReady(SendTask(b, w))
     /\ ready # <<>> => ENABLED RunReady
C16_Witness ==
  /\ bcast[1].res[1] = "pending"
  /\ bcast[2].st = "gathering"
  /\ bcast[2].res[1] = "pending"
  /\ submitted[2] = <<1, 2>>
  /\ last.op = "send"


\* C19: a handle is in the registry at most once; registering it, again or
\* not, makes it a member and changes no other membership; one unregister
\* leaves the registry without it, however often it was registered.
C19_RegistryStep ==
  \A w \in Clients :
    /\ connected_websockets'[w] \in {0, 1}
    /\ handlers'[w] > handlers[w] =>
         /\ connected_websockets'[w] = 1
         /\ \A v \in Clients \ {w} :
              connected_websockets'[v] = connected_websockets[v]
    /\ (handlers'[w] < handlers[w] /\ connected_websockets[w] > 0) =>
         /\ connected_websockets'[w] = 0
         /\ \A v \in Clients \ {w} :
              connected_websockets'[v] = connected_websockets[v]
C19_RegisterIdempotent == [][C19_RegistryStep]_vars
C19_Witness ==
  /\ last.op = "unregister"
  /\ handlers[1] = 1
  /\ handlers[2] = 0
  /\ Members(connected_websockets) = {}


\* ======================================================================
\* Shutdown: main() awaits bridge.start() and, when start ends by an
\* exception or a cancellation, awaits bridge.stop(); asyncio.run then
\* cancels the tasks that are left and closes the loop.
\* ======================================================================

\* transport.close(): connection_lost is scheduled
close_transport(ts, t) ==
  IF t # None /\ ts[t] \in {"new", "open"}
  THEN [ts EXCEPT ![t] = "closing"]
  ELSE ts

\* Task.cancel() of the health task
cancel_health(h) == IF h # "None" THEN "cancelled" ELSE h

\* the positions of start() and _main_loop() where the WebSocket server has
\* been assigned to self.websocket_server
ServerAssigned ==
  bridge_pc \in {"main_sleep", "rebuild_await_endpoint", "settle"}

\* the log entries of closing the transports that exist
CloseLog ==
  IF cmd_transport # None THEN <<"close_cmd", "close_state">> ELSE <<>>

stopRest == <<protoVars, need_reconnect, bridge_need_reconnect,
              tello_protocol, cmd_transport, tello_command_handler, wire,
              broadcast_tasks, now, ncalls, rebuilds, episodes,
              reported_failed, wsData, parseVars>>

\* a stop() that closes the transports before the server
StopBegin_transports_first ==
  /\ bridge_pc \in {"start_await_endpoint", "start_await_server",
                    "main_sleep", "rebuild_await_endpoint", "settle"}
  /\ health_task' = cancel_health(health_task)
  /\ tstate' = close_transport(tstate, cmd_transport)
  /\ IF ServerAssigned
     THEN /\ stop_log' = <<"cancel_health">> \o CloseLog \o <<"server_close">>
          /\ bridge_pc' = "stop_await_closed"
     ELSE /\ stop_log' = <<"cancel_health">> \o CloseLog
          /\ bridge_pc' = "stopped"
  /\ last' = Op("stop_begin", None)
  /\ UNCHANGED stopRest

\* start() ends at one of its awaits, by an exception or by the
\* cancellation of the main task, and main() calls stop(): the health task
\* is cancelled, then the server, if there is one, is closed and stop()
\* awaits wait_closed(); with no server stop() goes on to the transports
StopBegin ==
  /\ bridge_pc \in {"start_await_endpoint", "start_await_server",
                    "main_sleep", "rebuild_await_endpoint", "settle"}
  /\ health_task' = cancel_health(health_task)
  /\ IF ServerAssigned
     THEN /\ stop_log' = <<"cancel_health", "server_close">>
          /\ bridge_pc' = "stop_await_closed"
          /\ UNCHANGED tstate
     ELSE /\ stop_log' = <<"cancel_health">> \o CloseLog
          /\ bridge_pc' = "stopped"
          /\ tstate' = close_transport(tstate, cmd_transport)
  /\ last' = Op("stop_begin", None)
  /\ UNCHANGED stopRest

\* wait_closed() returns: the server has closed every connection and every
\* handler has ended; stop() closes the two transports and returns
StopFinish ==
  /\ bridge_pc = "stop_await_closed"
  /\ stop_log' = stop_log \o <<"wait_closed">> \o CloseLog
  /\ tstate' = close_transport(tstate, cmd_transport)
  /\ bridge_pc' = "stopped"
  /\ last' = Op("stop_finish", None)
  /\ UNCHANGED <<stopRest, health_task>>

\* main() has returned: the callbacks scheduled by then have run, and
\* asyncio.run cancels every task that is left and closes the loop
Teardown ==
  /\ bridge_pc = "stopped"
  /\ \A p \in Protos : tstate[p] # "closing"
  /\ bridge_pc' = "exited"
  /\ reconnect_task' =
       [p \in Protos |-> IF reconnect_task[p] \in {"pending", "sleeping"}
                         THEN "cancelled" ELSE reconnect_task[p]]
  /\ last' = Op("teardown", None)
  /\ UNCHANGED <<constructed, connected, transport, last_response_time,
                 command_queue, retries, retry_delay, need_reconnect,
                 bridge_need_reconnect, tello_protocol, cmd_transport,
                 tello_command_handler, health_task, tstate, wire,
                 broadcast_tasks, now, ncalls, rebuilds, episodes,
                 reported_failed, wsVars>>

\* stop() has returned or is past its last await
Stopped == bridge_pc \in {"stopped", "exited"}

\* what the loop still runs: everything until stop() has closed the
\* transports; after that the callbacks already scheduled, and the tasks
\* whose sleep is over
StopReconnectStep ==
  \E p \in Protos :
     /\ bridge_pc # "exited"
     /\ bridge_pc = "stopped" => reconnect_task[p] = "sleeping"
     /\ ReconnectStep(p)
StopConnectionMade == ~Stopped /\ EvConnectionMade
StopErrorReceived == ~Stopped /\ EvErrorReceived
StopConnectionLost == bridge_pc # "exited" /\ EvConnectionLost
StopDatagramReceived == ~Stopped /\ EvDatagramReceived
StopBroadcastDone == ~Stopped /\ BroadcastDone
StopTick == ~Stopped /\ Tick

StopNext ==
  \/ Start
  \/ BridgeStep
  \/ HealthMonitorStep
  \/ StopReconnectStep
  \/ StopConnectionMade
  \/ StopErrorReceived
  \/ StopConnectionLost
  \/ StopDatagramReceived
  \/ EvClientMessage
  \/ StopBroadcastDone
  \/ StopTick
  \/ StopBegin
  \/ StopFinish
  \/ Teardown

StopSpec == Init /\ [][StopNext]_vars


\* the order of the statements of stop()
StopOrder ==
  <<"cancel_health", "server_close", "wait_closed", "close_cmd",
    "close_state">>
StopPos(e) == CHOOSE i \in 1..Len(StopOrder) : StopOrder[i] = e
Logged(e, log) == \E i \in 1..Len(log) : log[i] = e

\* C17: stop() cancels the health task, then closes the server and waits
\* for it, then closes the two transports; no client message reaches the
\* command channel once stop() has closed the command transport, and the
\* health monitor does not run once stop() has begun.
C17_Step ==
  /\ \A i, j \in 1..Len(stop_log') :
       i < j => StopPos(stop_log'[i]) < StopPos(stop_log'[j])
  /\ Logged("close_cmd", stop_log') /\ Logged("server_close", stop_log')
       => Logged("wait_closed", stop_log')
  /\ stop_log' # <<>> => stop_log'[1] = "cancel_health"
  /\ last'.op = "stop_begin" =>
       /\ health_task' = "cancelled"
       /\ ServerAssigned => tstate' = tstate
  /\ last'.op = "stop_finish" =>
       /\ cmd_transport # None
       /\ tstate'[cmd_transport] \in {"closing", "closed"}
  /\ last'.op \in {"send_to_tello", "discarded"} =>
       ~Logged("close_cmd", stop_log)
  /\ last'.op = "health_tick" => stop_log = <<>>
C17_StopOrder == [][C17_Step]_vars
C17_Witness ==
  /\ last.op = "stop_finish"
  /\ stop_log = StopOrder
  /\ health_task = "cancelled"
  /\ tstate[cmd_transport] = "closing"
  /\ ncalls = 1
  /\ Len(wire) = 2

\* C18: once stop() has closed the command transport the command channel
\* stays closed: no reconnection task is created, neither reconnect signal
\* is raised, no socket is rebuilt and nothing is sent.
C18_Step ==
  Logged("close_cmd", stop_log) =>
    /\ episodes' = episodes
    /\ need_reconnect' => need_reconnect
    /\ bridge_need_reconnect' => bridge_need_reconnect
    /\ rebuilds' = rebuilds
    /\ constructed' = constructed
    /\ wire' = wire
    /\ tstate'[cmd_transport] \in {"closing", "closed"}
    /\ \A p \in Protos :
         reconnect_task'[p] \in {"pending", "sleeping"}
           => reconnect_task[p] \in {"pending", "sleeping"}
C18_ClosedIsTerminal == [][C18_Step]_vars


\* ======================================================================
\* TelloStateProtocol.parse_state_data.  A string is a sequence of
\* one-character strings.
\* ======================================================================
MaxSegs == 2        \* segments in a telemetry line

\* self.state_types: the keys converted with int and with float
IntKeys ==
  { <<"m", "i", "d">>, <<"x">>, <<"y">>, <<"z">> }
FloatKeys ==
  { <<"p", "i", "t", "c", "h">>, <<"r", "o", "l", "l">>, <<"y", "a", "w">>,
    <<"v", "g", "x">>, <<"v", "g", "y">>, <<"v", "g", "z">>,
    <<"t", "e", "m", "p", "l">>, <<"t", "e", "m", "p", "h">>,
    <<"t", "o", "f">>, <<"h">>, <<"b", "a", "t">>, <<"b", "a", "r", "o">>,
    <<"t", "i", "m", "e">>, <<"a", "g", "x">>, <<"a", "g", "y">>,
    <<"a", "g", "z">> }

Whitespace == {" ", "\t", "\n", "\r"}
DigitChars == <<"0", "1", "2", "3", "4", "5", "6", "7", "8", "9">>
IsDigit(c) == \E i \in 1..10 : DigitChars[i] = c
DigitVal(c) == (CHOOSE i \in 1..10 : DigitChars[i] = c) - 1

\* str.strip()
RECURSIVE lstrip(_)
lstrip(t) ==
  IF t # <<>> /\ Head(t) \in Whitespace THEN lstrip(Tail(t)) ELSE t
RECURSIVE rstrip(_)
rstrip(t) ==
  IF t # <<>> /\ t[Len(t)] \in Whitespace
  THEN rstrip(SubSeq(t, 1, Len(t) - 1)) ELSE t
strip(t) == rstrip(lstrip(t))

\* the index of the first c in t, 0 if there is none
RECURSIVE find(_, _, _)
find(t, c, i) ==
  IF i > Len(t) THEN 0 ELSE IF t[i] = c THEN i ELSE find(t, c, i + 1)

\* str.split(c): the pieces between the occurrences of c
RECURSIVE split(_, _)
split(t, c) ==
  LET k == find(t, c, 1)
  IN IF k = 0 THEN <<t>>
     ELSE <<SubSeq(t, 1, k - 1)>> \o split(SubSeq(t, k + 1, Len(t)), c)

\* the number written by a string of digits, after the digits of value n
RECURSIVE digits_value(_, _)
digits_value(t, n) ==
  IF t = <<>> THEN n ELSE digits_value(Tail(t), 10 * n + DigitVal(Head(t)))
RECURSIVE pow10(_)
pow10(n) == IF n = 0 THEN 1 ELSE 10 * pow10(n - 1)
AllDigits(t) == \A i \in 1..Len(t) : IsDigit(t[i])

\* the values of the result dictionary
StrValue(t) == [t |-> "str", num |-> 0, den |-> 0, special |-> "", s |-> t]
IntValue(n) == [t |-> "int", num |-> n, den |-> 1, special |-> "", s |-> <<>>]
FloatValue(n, d) ==
  [t |-> "float", num |-> n, den |-> d, special |-> "", s |-> <<>>]
SpecialFloat(name) ==
  [t |-> "float", num |-> 0, den |-> 0, special |-> name, s |-> <<>>]
ValueError == [t |-> "ValueError", num |-> 0, den |-> 0, special |-> "",
               s |-> <<>>]

\* a sign and the rest of a numeral
Sign(t) == IF t # <<>> /\ Head(t) = "-" THEN -1 ELSE 1
Unsigned(t) == IF t # <<>> /\ Head(t) \in {"-", "+"} THEN Tail(t) ELSE t

\* int(text): surrounding whitespace is dropped, then an optional sign and
\* decimal digits; anything else raises ValueError.  (Digit grouping with
\* underscores is not modelled; no value of the model contains one.)
py_int(text) ==
  LET u == Unsigned(strip(text))
  IN IF u # <<>> /\ AllDigits(u)
     THEN IntValue(Sign(strip(text)) * digits_value(u, 0))
     ELSE ValueError

\* float(text): surrounding whitespace is dropped, then an optional sign
\* and either digits with an optional point, or one of the names nan, inf
\* and infinity; anything else raises ValueError.  (Exponents, underscores
\* and upper case are not modelled; no value of the model contains them.)
py_float(text) ==
  LET t == strip(text)
      u == Unsigned(t)
      k == find(u, ".", 1)
      ip == IF k = 0 THEN u ELSE SubSeq(u, 1, k - 1)
      fp == IF k = 0 THEN <<>> ELSE SubSeq(u, k + 1, Len(u))
  IN IF u = <<"n", "a", "n">> THEN SpecialFloat("nan")
     ELSE IF u \in {<<"i", "n", "f">>,
                    <<"i", "n", "f", "i", "n", "i", "t", "y">>}
     THEN SpecialFloat(IF Sign(t) = 1 THEN "inf" ELSE "-inf")
     ELSE IF AllDigits(ip) /\ AllDigits(fp) /\ ip \o fp # <<>>
     THEN FloatValue(Sign(t) * digits_value(ip \o fp, 0), pow10(Len(fp)))
     ELSE ValueError

\* state_data[key] = value: a new key goes to the end, a key that is there
\* keeps its place and takes the new value
dict_set(d, key, value) ==
  IF \E i \in 1..Len(d) : d[i].key = key
  THEN [i \in 1..Len(d) |->
          IF d[i].key = key THEN [key |-> key, value |-> value] ELSE d[i]]
  ELSE Append(d, [key |-> key, value |-> value])

\* lines 104-110: the conversion of one value and its except clause
convert(key, value) ==
  LET r == IF key \in IntKeys THEN py_int(value)
           ELSE IF key \in FloatKeys THEN py_float(value)
           ELSE StrValue(value)
  IN IF r.t = "ValueError" THEN StrValue(value) ELSE r

\* the for loop of parse_state_data
RECURSIVE parse_loop(_, _, _)
parse_loop(pairs, i, d) ==
  IF i > Len(pairs) THEN d
  ELSE LET pair == pairs[i]
           k == find(pair, ":", 1)
       IN IF pair = <<>> \/ k = 0
          THEN parse_loop(pairs, i + 1, d)
          ELSE parse_loop(pairs, i + 1,
                 dict_set(d, SubSeq(pair, 1, k - 1),
                          convert(SubSeq(pair, 1, k - 1),
                                  SubSeq(pair, k + 1, Len(pair)))))

\* TelloStateProtocol.parse_state_data: every exception it can meet is the
\* ValueError of a conversion, which it catches
parse_state_data(state_string) ==
  [raised |-> "", data |-> parse_loop(split(strip(state_string), ";"), 1, <<>>),
   done |-> TRUE]

\* ---- ParseSpec: a telemetry line made of segments, then parsed ----
\* the keys and the values the segments are made of
SegKeys == { <<"m", "i", "d">>, <<"b", "a", "t">>, <<"z", "z">> }
SegValues ==
  { <<"7">>, <<"-", "1", "2">>, <<"1", ".", "5">>, <<"n", "a", "n">>,
    <<"o", "k">>, <<"1", ":", "2">>, <<>> }
\* a segment is key:value, or it is empty
Segments ==
  [empty : {FALSE}, key : SegKeys, value : SegValues]
    \cup {[empty |-> TRUE, key |-> <<>>, value |-> <<>>]}
SegText(g) == IF g.empty THEN <<>> ELSE g.key \o <<":">> \o g.value
RECURSIVE Join(_)
Join(gs) ==
  IF gs = <<>> THEN <<>>
  ELSE IF Len(gs) = 1 THEN SegText(gs[1])
  ELSE SegText(gs[1]) \o <<";">> \o Join(Tail(gs))
\* how a line ends: with nothing, with ; or with ; and a line break
Trailers == { <<>>, <<";">>, <<";", "\r", "\n">> }
SegLists == UNION {[1..n -> Segments] : n \in 0..MaxSegs}

ParseInit ==
  /\ Blank
  /\ constructed = 0
  /\ segs \in SegLists
  /\ \E tr \in Trailers : line = Join(segs) \o tr
  /\ parsed = NotParsed

\* datagram_received calls parse_state_data(message)
Parse ==
  /\ ~parsed.done
  /\ parsed' = parse_state_data(line)
  /\ last' = Op("parse", None)
  /\ UNCHANGED <<protoVars, need_reconnect, bridge_need_reconnect,
                 bridgeVars, tstate, wire, broadcast_tasks, now, ncalls,
                 rebuilds, episodes, reported_failed, wsData, stop_log,
                 segs, line>>

ParseNext ==
  \/ Parse

ParseSpec == ParseInit /\ [][ParseNext]_vars


\* what the line was made of: its keys, and the value of the last segment
\* with a given key
LineKeys == {segs[i].key : i \in {j \in 1..Len(segs) : ~segs[j].empty}}
LastValue(k) ==
  LET n == CHOOSE i \in 1..Len(segs) :
             /\ ~segs[i].empty /\ segs[i].key = k
             /\ \A j \in (i + 1)..Len(segs) : segs[j].empty \/ segs[j].key # k
  IN segs[n].value
\* a decimal numeral: an optional minus sign, digits, and for a float an
\* optional point followed by digits
IsIntNumeral(v) ==
  LET u == IF v # <<>> /\ Head(v) = "-" THEN Tail(v) ELSE v
  IN u # <<>> /\ \A i \in 1..Len(u) : IsDigit(u[i])
IsFloatNumeral(v) ==
  \/ IsIntNumeral(v)
  \/ \E k \in 2..(Len(v) - 1) :
       /\ v[k] = "."
       /\ IsIntNumeral(SubSeq(v, 1, k - 1))
       /\ \A i \in (k + 1)..Len(v) : IsDigit(v[i])

\* C20: parse_state_data does not raise; its result has exactly the keys of
\* the line, each once, with the value of the key's last segment: a number
\* of the declared kind if the key is a known one and the value is a
\* numeral, and the original string in every other case.
C20_ParseContract ==
  parsed.done =>
    /\ parsed.raised = ""
    /\ {parsed.data[i].key : i \in 1..Len(parsed.data)} = LineKeys
    /\ \A i, j \in 1..Len(parsed.data) :
         parsed.data[i].key = parsed.data[j].key => i = j
    /\ \A i \in 1..Len(parsed.data) :
         LET k == parsed.data[i].key
             v == LastValue(k)
             e == parsed.data[i].value
         IN IF k \in IntKeys /\ IsIntNumeral(v)
            THEN e.t = "int"
            ELSE IF k \in FloatKeys /\ IsFloatNumeral(v)
            THEN e.t = "float" /\ e.special = ""
            ELSE e = StrValue(v)

\* ======================= the rebuilt command socket =======================
\* `need_reconnect` of module tello_bridge is a module attribute.  Nothing
\* inside the package assigns it True (see C3); here the program that embeds
\* the package assigns it, which is the only way the rebuild branch of
\* _main_loop runs.
AssignNeedReconnect ==
  /\ ServerRunning
  /\ ~bridge_need_reconnect
  /\ rebuilds = 0
  /\ bridge_need_reconnect' = TRUE
  /\ last' = Op("assign_need_reconnect", None)
  /\ UNCHANGED wsVars
  /\ UNCHANGED <<protoVars, need_reconnect, bridgeVars, tstate, wire,
                 broadcast_tasks, now, ncalls, rebuilds, episodes,
                 reported_failed>>

RebuildNext ==
  \/ Start
  \/ BridgeStep
  \/ HealthMonitorStep
  \/ AssignNeedReconnect
  \/ EvReconnectStep
  \/ EvConnectionMade
  \/ EvErrorReceived
  \/ EvConnectionLost
  \/ EvClientMessage

RebuildSpec == Init /\ [][RebuildNext]_vars

\* C21: once the main loop has rebuilt the command socket, a message received
\* from a WebSocket client is handed to send_to_tello of the bridge's current
\* protocol object, and when that object is connected the message is put on
\* the wire by this call.
C21_Step ==
  (rebuilds > 0 /\ last'.op = "send_to_tello") =>
     /\ last'.p = tello_protocol
     /\ connected[tello_protocol] =>
           \E i \in DOMAIN wire' : /\ i > Len(wire)
                                    /\ wire'[i].data.call = ncalls'
                                    /\ wire'[i].via = cmd_transport
C22_ConnectedQueueEmpty ==
  \A p \in Protos : connected[p] => command_queue[p] = <<>>
C22_Witness ==
  /\ last.op = "connection_made"
  /\ connected[1]
  /\ command_queue[1] = <<>>
  /\ Len(wire) = 2
  /\ wire[1].data.call = 1
  /\ wire[2] = Datagram(Probe, 1)

\* C23: one protocol object has at most one _reconnect task running.  An
\* error_received or connection_lost that arrives while the object's task is
\* still running creates no task and leaves the running task, its attempt
\* count and its delay as they are; a task is only ever created for an
\* object that has no running task.
LoopRunning(p) == reconnect_task[p] \in {"pending", "sleeping"}
C23_Step ==
  /\ \A p \in Protos :
        (/\ last'.op \in {"error_received", "connection_lost"}
         /\ last'.p = p
         /\ LoopRunning(p)) =>
           /\ episodes' = episodes
           /\ reconnect_task'[p] = reconnect_task[p]
           /\ retries'[p] = retries[p]
           /\ retry_delay'[p] = retry_delay[p]
  /\ episodes' # episodes =>
        /\ episodes' = episodes + 1
        /\ \E p \in Protos : ~LoopRunning(p) /\ reconnect_task'[p] = "pending"
C23_SingleReconnectLoop == [][C23_Step]_vars
C23_Witness ==
  /\ last.op \in {"error_received", "connection_lost"}
  /\ reconnect_task[last.p] = "sleeping"
  /\ retries[last.p] >= 1
  /\ RatEq(retry_delay[last.p], <<15, 2>>)
  /\ episodes = 1

====
